---- MODULE Spec2Model ----
(***************************************************************************)
(* Model of django_cte/query.py: CTEQuery (a Query carrying an ordered     *)
(* list of CTE references in _with_ctes), its clone/chain/combine          *)
(* overrides, compiler selection, and CTECompiler.generate_sql.            *)
(*                                                                         *)
(* Python objects are modelled as a heap: a query is a record holding its  *)
(* class, a REFERENCE to a list object and its combinator attribute; list  *)
(* objects live in `lists` so that two queries holding the same list       *)
(* object is a state the model can express.  Python strings are sequences  *)
(* of tokens, so that str.join and str.format are computed, not assumed.   *)
(***************************************************************************)
EXTENDS Integers, Sequences, FiniteSets, TLC

VARIABLES queries,   \* the query objects: slot -> [cls, _with_ctes, combinator]
          lists,     \* the list objects: address -> sequence of CTE references
          ret,       \* the last call: its name, arguments and outcome
          origin     \* history: the query each query was cloned from (0: none)

vars == <<queries, lists, ret, origin>>

\* ---------------------------------------------------------------- bounds
MaxQueries == 2
MaxCtes == 2

\* ------------------------------------------------------------- universes
None == "None"

QIds == 1..MaxQueries
ListIds == 1..(MaxQueries + 1)

\* CTE names and the nested queries (bodies) a With object may carry.
Names == {"a", "b", "c"}
Bodies == {1, 2, 3}
CTEs == [name : Names, query : Bodies]

\* The heap specification appends CTEs from this subset.
HeapCTEs == {c \in CTEs : c.name \in {"a", "b"} /\ c.query = (IF c.name = "a" THEN 1 ELSE 2)}

\* Classes: the three query classes of the module, user subclasses of
\* CTEQuery and of CTEUpdateQuery, and the host classes passed as klass.
CTEQueryClasses == {"CTEQuery", "CTEUpdateQuery", "CTEDeleteQuery", "CustomCTEQuery",
                    "CustomUpdateQuery"}
KlassArgs == {None, "UpdateQuery", "DeleteQuery", "AggregateQuery"}
Connectors == {"AND", "OR"}

\* The classes the heap specification constructs and chains to.
HeapClasses == {"CTEQuery"}
HeapKlassArgs == {None, "UpdateQuery", "AggregateQuery"}

\* Values of query.combinator: attribute absent (old host versions), None,
\* or the name of a set-combinator.
Missing == "Missing"
Combinators == {Missing, None, "union"}

\* Arguments of get_compiler; connections[using] is the host's registry.
Usings == {None, "", "default"}
Connections == {None, "conn"}
connections == [u \in {"default"} |-> "default_conn"]

\* ------------------------------------------------------- python helpers
\* dict.get(key, default)
DictGet(d, k, default) == IF k \in DOMAIN d THEN d[k] ELSE default

\* Truth value of a Python scalar used as a condition (None, False and ""
\* are falsy) and of a list (the empty list is falsy).
False == "False"
Truthy(x) == x \notin {None, False, ""}
TruthyList(l) == Len(l) > 0

\* getattr of an attribute the query never has.
GetCombinator_absent(q) == False

\* getattr(obj, "combinator", False)
GetCombinator(q) == IF q.combinator = Missing THEN False ELSE q.combinator

\* sep.join(parts): parts is a sequence of strings.
RECURSIVE Join(_, _)
Join(sep, parts) ==
    IF parts = <<>> THEN <<>>
    ELSE IF Len(parts) = 1 THEN parts[1]
    ELSE parts[1] \o sep \o Join(sep, Tail(parts))

\* ------------------------------------------------------------- the heap
NoQuery == [cls |-> None, _with_ctes |-> 0, combinator |-> None]

Live(q) == queries[q].cls # None
LiveQueries == {q \in QIds : Live(q)}

\* The contents of a query's CTE list.
with_ctes(q) == lists[queries[q]._with_ctes]

\* Object allocation.  A new query takes the lowest free slot.  A new list
\* built for query q takes address q unless a query other than q holds the
\* list at that address, and the lowest free address otherwise; addresses
\* are only ever compared between live objects.
Referenced(qs) == {qs[q]._with_ctes : q \in {x \in QIds : qs[x].cls # None}}
HeldByOther(q) == {queries[p]._with_ctes : p \in LiveQueries \ {q}}
NewQuery == CHOOSE q \in QIds : ~Live(q) /\ \A p \in QIds : p < q => Live(p)
NewList(q) ==
    IF q \notin HeldByOther(q) THEN q
    ELSE CHOOSE l \in ListIds :
              /\ l \notin Referenced(queries)
              /\ \A k \in ListIds : k < l => k \in Referenced(queries)

\* A list object no query refers to any more is freed.
Collect(qs, ls) == [l \in ListIds |-> IF l \in Referenced(qs) THEN ls[l] ELSE <<>>]

NoRet == [op |-> None, self |-> 0, other |-> 0, arg |-> None, exc |-> None,
          val |-> 0, klass |-> None, sql |-> <<>>, params |-> <<>>, calls |-> 0,
          compiled |-> <<>>, super |-> FALSE]

\* --------------------------------------------------------------- tables
\* The table with the two compiler classes exchanged.
COMPILER_TYPES_swapped == ("CTEUpdateQuery" :> "CTEDeleteQueryCompiler")
                          @@ ("CTEDeleteQuery" :> "CTEUpdateQueryCompiler")

QUERY_TYPES == ("UpdateQuery" :> "CTEUpdateQuery") @@ ("DeleteQuery" :> "CTEDeleteQuery")

COMPILER_TYPES == ("CTEUpdateQuery" :> "CTEUpdateQueryCompiler")
                  @@ ("CTEDeleteQuery" :> "CTEDeleteQueryCompiler")

\* ------------------------------------------------------------ CTEQuery
\* CTEQuery.__init__: the host constructor, then a new empty list.
__init__(q, cls) ==
    /\ queries' = [queries EXCEPT ![q] =
                      [cls |-> cls, _with_ctes |-> NewList(q), combinator |-> None]]
    /\ lists' = [lists EXCEPT ![NewList(q)] = <<>>]

Construct(cls) ==
    /\ LiveQueries # QIds
    /\ __init__(NewQuery, cls)
    /\ ret' = [NoRet EXCEPT !.op = "__init__", !.val = NewQuery]
    /\ UNCHANGED origin

\* CTEQuery.from_query(other): cls(model=..., where=...) and a field by field
\* copy of the host attributes; _with_ctes and combinator are not copied.
from_query(cls, other) ==
    /\ LiveQueries # QIds
    /\ __init__(NewQuery, cls)
    /\ ret' = [NoRet EXCEPT !.op = "from_query", !.val = NewQuery]
    /\ UNCHANGED origin

\* query._with_ctes.append(cte): how a CTE is declared on a query.
append(q, cte) ==
    /\ Live(q)
    /\ Len(with_ctes(q)) < MaxCtes
    /\ \A i \in 1..Len(with_ctes(q)) : with_ctes(q)[i].name # cte.name
    /\ lists' = [lists EXCEPT ![queries[q]._with_ctes] = Append(@, cte)]
    /\ ret' = [NoRet EXCEPT !.op = "append", !.self = q]
    /\ UNCHANGED <<queries, origin>>

\* query._with_ctes.pop(): removes the last declared CTE.
pop(q) ==
    /\ Live(q)
    /\ with_ctes(q) # <<>>
    /\ lists' = [lists EXCEPT ![queries[q]._with_ctes] = SubSeq(@, 1, Len(@) - 1)]
    /\ ret' = [NoRet EXCEPT !.op = "pop", !.self = q]
    /\ UNCHANGED <<queries, origin>>

\* An assignment without the slice: the reference itself.
SliceAlias(l, owner) == l

\* lst[:], assigned to owner._with_ctes, allocates a new list object; the
\* result is the reference to it.
SliceCopy(l, owner) == NewList(owner)

\* __chain without its line `clone._with_ctes = self._with_ctes[:]`: the clone
\* keeps the reference the host's attribute copy gave it.
__chain_shared(_name, self, klass) ==
    /\ Live(self)
    /\ LiveQueries # QIds
    /\ LET k == DictGet(QUERY_TYPES, klass, queries[self].cls)
           clone == NewQuery
       IN /\ queries' = [queries EXCEPT ![clone] =
                            [cls |-> k, _with_ctes |-> queries[self]._with_ctes,
                             combinator |-> queries[self].combinator]]
          /\ lists' = lists
          /\ ret' = [NoRet EXCEPT !.op = _name, !.self = self, !.val = clone,
                                  !.super = TRUE]
          /\ origin' = [origin EXCEPT ![clone] = self]

\* CTEQuery.__chain(_name, klass): the host's clone/chain builds an object of
\* class klass carrying the host attributes of self; then the clone gets a
\* copy of the CTE list.
__chain(_name, self, klass) ==
    /\ Live(self)
    /\ LiveQueries # QIds
    /\ LET k == DictGet(QUERY_TYPES, klass, queries[self].cls)
           clone == NewQuery
           ref == SliceCopy(queries[self]._with_ctes, clone)
       IN /\ queries' = [queries EXCEPT ![clone] =
                            [cls |-> k, _with_ctes |-> ref,
                             combinator |-> queries[self].combinator]]
          /\ lists' = Collect(queries', [lists EXCEPT ![ref] = lists[queries[self]._with_ctes]])
          /\ ret' = [NoRet EXCEPT !.op = _name, !.self = self, !.val = clone,
                                  !.super = TRUE]
          /\ origin' = [origin EXCEPT ![clone] = self]

\* django.VERSION < (2, 0)
clone(self, klass) == __chain("clone", self, klass)

\* django.VERSION >= (2, 0)
chain(self, klass) == __chain("chain", self, klass)

\* combine without the guard on self's list: the other side's CTEs always win.
combine_ctes_overwrite(mine, theirs) ==
    IF TruthyList(theirs)
    THEN [exc |-> None, assign |-> TRUE, value |-> theirs]
    ELSE [exc |-> None, assign |-> FALSE, value |-> mine]

\* combine without the test of other's list: self always takes a copy of it.
combine_ctes_always(mine, theirs) ==
    IF TruthyList(theirs) /\ TruthyList(mine)
    THEN [exc |-> "TypeError", assign |-> FALSE, value |-> mine]
    ELSE [exc |-> None, assign |-> TRUE, value |-> theirs]

\* combine that merges the two lists instead of refusing.
combine_ctes_merge(mine, theirs) ==
    IF TruthyList(theirs)
    THEN [exc |-> None, assign |-> TRUE, value |-> mine \o theirs]
    ELSE [exc |-> None, assign |-> FALSE, value |-> mine]

\* The CTE part of combine, on the two lists' contents: the exception raised
\* (None if none) and whether self._with_ctes is assigned a copy of other's.
combine_ctes(mine, theirs) ==
    IF TruthyList(theirs)
    THEN IF TruthyList(mine)
         THEN [exc |-> "TypeError", assign |-> FALSE, value |-> mine]
         ELSE [exc |-> None, assign |-> TRUE, value |-> theirs]
    ELSE [exc |-> None, assign |-> FALSE, value |-> mine]

\* CTEQuery.combine(other, connector).  hostOk: whether the host's combine
\* accepts the two queries (it raises on its own conditions otherwise).
combine(self, other, connector, hostOk) ==
    /\ Live(self) /\ Live(other)
    /\ LET r == combine_ctes(with_ctes(self), with_ctes(other))
           ref == SliceCopy(queries[other]._with_ctes, self)
           qs == IF r.assign
                 THEN [queries EXCEPT ![self]._with_ctes = ref]
                 ELSE queries
           ls == IF r.assign THEN [lists EXCEPT ![ref] = r.value] ELSE lists
       IN /\ queries' = qs
          /\ lists' = Collect(qs, ls)
          /\ ret' = [NoRet EXCEPT !.op = "combine", !.self = self, !.other = other,
                        !.super = (r.exc = None),
                        !.exc = IF r.exc # None THEN r.exc
                                ELSE IF hostOk THEN None ELSE "AssertionError"]
          /\ UNCHANGED origin

\* CTEQuery.get_compiler(using, connection).  exprOk: whether the host's
\* check_expression_support accepts every annotation of the query.
get_compiler_result(self, using, connection, exprOk) ==
    IF using = None /\ connection = None
    THEN [exc |-> "ValueError", klass |-> None, connection |-> None]
    ELSE LET conn == IF Truthy(using) THEN connections[using] ELSE connection
         IN IF ~exprOk
            THEN [exc |-> "NotSupportedError", klass |-> None, connection |-> conn]
            ELSE [exc |-> None,
                  klass |-> DictGet(COMPILER_TYPES, queries[self].cls, "CTEQueryCompiler"),
                  connection |-> conn]

get_compiler(self, using, connection, exprOk) ==
    /\ Live(self)
    /\ LET r == get_compiler_result(self, using, connection, exprOk)
       IN ret' = [NoRet EXCEPT !.op = "get_compiler", !.self = self, !.exc = r.exc,
                               !.klass = r.klass, !.arg = r.connection]
    /\ UNCHANGED <<queries, lists, origin>>

\* --------------------------------------------------------- CTECompiler
TEMPLATE(name, query) == <<name>> \o <<" AS (">> \o query \o <<")">>

\* cte.query.get_compiler(connection=connection).as_sql(): the SQL and the
\* parameters the nested query compiles to.
Compile(body, connection) ==
    CASE body = 1 -> [sql |-> <<"SELECT 1 FROM t WHERE x = ", "%s">>, params |-> <<11>>]
      [] body = 2 -> [sql |-> <<"SELECT 2 FROM u WHERE y IN (", "%s", ", ", "%s", ")">>,
                      params |-> <<21, 22>>]
      [] OTHER    -> [sql |-> <<"SELECT 3">>, params |-> <<>>]

\* The loop inserting at the front instead of appending.
RECURSIVE cte_loop_reversed(_, _, _)
cte_loop_reversed(rest, connection, acc) ==
    IF rest = <<>> THEN acc
    ELSE LET cte == Head(rest)
             c == Compile(cte.query, connection)
         IN cte_loop_reversed(Tail(rest), connection,
                     [ctes |-> <<TEMPLATE(cte.name, c.sql)>> \o acc.ctes,
                      params |-> c.params \o acc.params,
                      compiled |-> Append(acc.compiled, cte.query)])

\* The for loop of generate_sql over query._with_ctes, first to last.
RECURSIVE cte_loop(_, _, _)
cte_loop(rest, connection, acc) ==
    IF rest = <<>> THEN acc
    ELSE LET cte == Head(rest)
             c == Compile(cte.query, connection)
         IN cte_loop(Tail(rest), connection,
                     [ctes |-> Append(acc.ctes, TEMPLATE(cte.name, c.sql)),
                      params |-> acc.params \o c.params,
                      compiled |-> Append(acc.compiled, cte.query)])

\* The clause without the `if ctes else []`.
with_clause_always(ctes) == << <<"WITH RECURSIVE">>, Join(<<", ">>, ctes) >>

\* ["WITH RECURSIVE", ", ".join(ctes)] if ctes else []
with_clause(ctes) ==
    IF TruthyList(ctes) THEN << <<"WITH RECURSIVE">>, Join(<<", ">>, ctes) >> ELSE <<>>

\* The base parameters put first.
extend_params_front(params, base_params) == base_params \o params

\* params.extend(base_params); tuple(params)
extend_params(params, base_params) == params \o base_params

\* CTECompiler.generate_sql(connection, query, as_sql).  as_sql is what the
\* callback does when called: the exception it raises (None if none) or the
\* SQL and parameters it returns.  calls counts the callback's invocations,
\* compiled lists the nested queries compiled.
generate_sql(connection, query, as_sql) ==
    IF Truthy(GetCombinator(queries[query]))
    THEN [exc |-> as_sql.exc, sql |-> as_sql.sql, params |-> as_sql.params,
          calls |-> 1, compiled |-> <<>>]
    ELSE LET acc == cte_loop(with_ctes(query), connection,
                             [ctes |-> <<>>, params |-> <<>>, compiled |-> <<>>])
             sql == with_clause(acc.ctes)
         IN IF as_sql.exc # None
            THEN [exc |-> as_sql.exc, sql |-> <<>>, params |-> <<>>,
                  calls |-> 1, compiled |-> acc.compiled]
            ELSE [exc |-> None,
                  sql |-> Join(<<" ">>, Append(sql, as_sql.sql)),
                  params |-> extend_params(acc.params, as_sql.params),
                  calls |-> 1, compiled |-> acc.compiled]

\* What the host compiler's as_sql (the callback) may do.
Bases ==
    [select |-> [exc |-> None, sql |-> <<"SELECT * FROM a">>, params |-> <<>>],
     filter |-> [exc |-> None, sql |-> <<"SELECT * FROM a WHERE k = ", "%s">>,
                 params |-> <<31>>],
     update |-> [exc |-> None,
                 sql |-> <<"UPDATE v SET w = ", "%s", " WHERE k = ", "%s">>,
                 params |-> <<32, 31>>],
     empty  |-> [exc |-> "EmptyResultSet", sql |-> <<>>, params |-> <<>>]]

\* CTEQueryCompiler.as_sql, CTEUpdateQueryCompiler.as_sql and
\* CTEDeleteQueryCompiler.as_sql: generate_sql around the host's as_sql.
as_sql(self, base) ==
    /\ Live(self)
    /\ LET r == generate_sql("conn", self, Bases[base])
       IN ret' = [NoRet EXCEPT !.op = "as_sql", !.self = self, !.arg = base,
                               !.exc = r.exc, !.sql = r.sql, !.params = r.params,
                               !.calls = r.calls, !.compiled = r.compiled]
    /\ UNCHANGED <<queries, lists, origin>>

\* ---------------------------------------------------------- specification
Init ==
    /\ queries = [q \in QIds |-> NoQuery]
    /\ lists = [l \in ListIds |-> <<>>]
    /\ ret = NoRet
    /\ origin = [q \in QIds |-> 0]

Next ==
    \/ \E cls \in HeapClasses : Construct(cls)
    \/ \E cls \in HeapClasses, other \in {0} \cup LiveQueries : from_query(cls, other)
    \/ \E q \in QIds, cte \in HeapCTEs : append(q, cte)
    \/ \E q \in QIds : pop(q)
    \/ \E q \in QIds, klass \in HeapKlassArgs : clone(q, klass)
    \/ \E q \in QIds, klass \in HeapKlassArgs : chain(q, klass)
    \/ \E s \in QIds, o \in QIds, c \in Connectors, hostOk \in BOOLEAN :
          combine(s, o, c, hostOk)

Spec == Init /\ [][Next]_vars

\* Compilation is a function of one query: every query a sequence of
\* constructions, chains, combines and declarations can produce is an
\* initial state, and the actions compile it.
RECURSIVE CteLists(_)
CteLists(n) ==
    IF n = 0 THEN {<<>>}
    ELSE CteLists(n - 1) \cup
         {Append(l, c) : l \in {x \in CteLists(n - 1) : Len(x) = n - 1},
                         c \in CTEs}

UniqueNames(l) == \A i, j \in 1..Len(l) : i # j => l[i].name # l[j].name

InitSql ==
    /\ \E cls \in CTEQueryClasses, comb \in Combinators :
          queries = [q \in QIds |->
                       IF q = 1 THEN [cls |-> cls, _with_ctes |-> 1, combinator |-> comb]
                       ELSE NoQuery]
    /\ \E l \in {x \in CteLists(MaxCtes) : UniqueNames(x)} :
          lists = [i \in ListIds |-> IF i = 1 THEN l ELSE <<>>]
    /\ ret = NoRet
    /\ origin = [q \in QIds |-> 0]

NextSql ==
    \/ \E q \in QIds, base \in DOMAIN Bases : as_sql(q, base)
    \/ \E q \in QIds, using \in Usings, connection \in Connections, exprOk \in BOOLEAN :
          get_compiler(q, using, connection, exprOk)

SpecSql == InitSql /\ [][NextSql]_vars

\* ------------------------------------------------------------ properties
\* The CTE list of q after the step.
with_ctes_after(q) == lists'[queries'[q]._with_ctes]

\* The query compiled by the last call and the callback it was given.
Compiled == ret.self
Base == Bases[ret.arg]
Unset(q) == queries[q].combinator \in {Missing, None}

\* '<name> AS (<compiled body>)' for one CTE reference.
Clause(cte) == <<cte.name, " AS (">> \o Compile(cte.query, "conn").sql \o <<")">>

\* The clauses of the first n entries of l, in order, separated by ', '.
RECURSIVE ClauseList(_, _)
ClauseList(l, n) ==
    IF n = 1 THEN Clause(l[1])
    ELSE ClauseList(l, n - 1) \o <<", ">> \o Clause(l[n])

\* The bound parameters of the first n entries of l, CTE by CTE.
RECURSIVE ParamList(_, _)
ParamList(l, n) ==
    IF n = 0 THEN <<>>
    ELSE ParamList(l, n - 1) \o Compile(l[n].query, "conn").params

Placeholders(sql) == Cardinality({i \in 1..Len(sql) : sql[i] = "%s"})

\* C1: for a query with no combinator and one or more CTEs, the SQL is
\* 'WITH RECURSIVE <c1>, <c2>, ... <base_sql>', each <ci> being
\* '<name_i> AS (<compiled body_i>)', in the order of the CTE list, separated
\* by ', ', and ending with the base SQL of the callback.
C1_WithRecursiveForm ==
    (/\ ret.op = "as_sql"
     /\ Unset(Compiled)
     /\ Len(with_ctes(Compiled)) >= 1
     /\ Base.exc = None)
    => /\ ret.exc = None
       /\ ret.sql = <<"WITH RECURSIVE", " ">>
                    \o ClauseList(with_ctes(Compiled), Len(with_ctes(Compiled)))
                    \o <<" ">> \o Base.sql

C1_Witness ==
    /\ ret.op = "as_sql"
    /\ Unset(Compiled)
    /\ Len(with_ctes(Compiled)) = 2
    /\ with_ctes(Compiled)[1].query # with_ctes(Compiled)[2].query
    /\ ret.arg = "filter"
    /\ ret.exc = None
    /\ Head(ret.sql) = "WITH RECURSIVE"

\* C2: for a query with no CTEs and no combinator, the SQL is exactly the
\* base SQL and the parameters are exactly the base parameters.
C2_NoCtesPassThrough ==
    (/\ ret.op = "as_sql"
     /\ Unset(Compiled)
     /\ with_ctes(Compiled) = <<>>
     /\ Base.exc = None)
    => /\ ret.exc = None
       /\ ret.sql = Base.sql
       /\ ret.params = Base.params

C2_Witness ==
    /\ ret.op = "as_sql"
    /\ Unset(Compiled)
    /\ with_ctes(Compiled) = <<>>
    /\ ret.arg = "update"
    /\ ret.sql = Bases["update"].sql
    /\ ret.params = <<32, 31>>

\* C3: for a query with no combinator, the parameters are every CTE's bound
\* parameters, CTE by CTE in the order of the CTE list, followed by the base
\* parameters; there is one parameter per placeholder of the SQL.
C3_ParamsInOrder ==
    (/\ ret.op = "as_sql"
     /\ Unset(Compiled)
     /\ Base.exc = None)
    => /\ ret.params = ParamList(with_ctes(Compiled), Len(with_ctes(Compiled)))
                       \o Base.params
       /\ Placeholders(ret.sql) = Len(ret.params)

C3_Witness ==
    /\ ret.op = "as_sql"
    /\ Unset(Compiled)
    /\ Len(with_ctes(Compiled)) = 2
    /\ with_ctes(Compiled)[1].query = 2
    /\ with_ctes(Compiled)[2].query = 1
    /\ ret.arg = "update"
    /\ ret.params = <<21, 22, 11, 32, 31>>

\* C4: with a truthy combinator the result is exactly the callback's result,
\* whatever the CTE list holds: no prefix, no CTE body compiled, no CTE
\* parameter, and the callback invoked exactly once.
C4_CombinatorPassThrough ==
    (/\ ret.op = "as_sql"
     /\ ~Unset(Compiled))
    => /\ ret.exc = Base.exc
       /\ ret.sql = Base.sql
       /\ ret.params = Base.params
       /\ ret.compiled = <<>>
       /\ ret.calls = 1

C4_Witness ==
    /\ ret.op = "as_sql"
    /\ queries[Compiled].combinator = "union"
    /\ Len(with_ctes(Compiled)) = 2
    /\ ret.arg = "filter"
    /\ ret.sql = Bases["filter"].sql
    /\ ret.params = <<31>>

C6_CombineBothSidesRaises ==
    [][\A s, o \in LiveQueries :
          (/\ ret'.op = "combine" /\ ret'.self = s /\ ret'.other = o
           /\ with_ctes(s) # <<>>
           /\ with_ctes(o) # <<>>)
          => /\ ret'.exc = "TypeError"
             /\ ~ret'.super
             /\ queries' = queries
             /\ lists' = lists]_vars

C6_Witness ==
    /\ ret.op = "combine"
    /\ ret.exc = "TypeError"
    /\ ret.self # ret.other
    /\ Len(with_ctes(ret.self)) = 2
    /\ with_ctes(ret.other) # <<>>
    /\ with_ctes(ret.other) # with_ctes(ret.self)

\* C7: combine raises no TypeError when at most one side carries CTEs, and
\* afterwards self carries the CTEs of the non-empty side in their order:
\* its own list if other's is empty, a copy of other's list (another list
\* object, other's left as it was) if its own was empty.
C7_CombineOneSide ==
    [][\A s, o \in LiveQueries :
          (/\ ret'.op = "combine" /\ ret'.self = s /\ ret'.other = o
           /\ (with_ctes(s) = <<>> \/ with_ctes(o) = <<>>))
          => /\ ret'.exc # "TypeError"
             /\ ret'.super
             /\ with_ctes_after(s) = (IF with_ctes(o) = <<>> THEN with_ctes(s)
                                      ELSE with_ctes(o))
             /\ with_ctes_after(o) = with_ctes(o)
             /\ s # o => queries'[s]._with_ctes # queries'[o]._with_ctes]_vars

C7_Witness ==
    /\ ret.op = "combine"
    /\ ret.exc = None
    /\ ret.self # ret.other
    /\ Len(with_ctes(ret.self)) = 2
    /\ with_ctes(ret.self) = with_ctes(ret.other)
    /\ queries[ret.self]._with_ctes # queries[ret.other]._with_ctes

\* C8: get_compiler returns CTEUpdateQueryCompiler for a CTEUpdateQuery,
\* CTEDeleteQueryCompiler for a CTEDeleteQuery and CTEQueryCompiler for a
\* query of any other class, whatever the query's CTE list.
C8_CompilerByClass ==
    (ret.op = "get_compiler" /\ ret.exc = None)
    => ret.klass = (CASE queries[ret.self].cls = "CTEUpdateQuery" -> "CTEUpdateQueryCompiler"
                      [] queries[ret.self].cls = "CTEDeleteQuery" -> "CTEDeleteQueryCompiler"
                      [] OTHER -> "CTEQueryCompiler")

C8_Witness ==
    /\ ret.op = "get_compiler"
    /\ ret.exc = None
    /\ queries[ret.self].cls = "CTEDeleteQuery"
    /\ ret.klass = "CTEDeleteQueryCompiler"
    /\ Len(with_ctes(ret.self)) = 2

====
